---- MODULE Spec2Model ----
(***************************************************************************)
(* A model of the `bitset` crate (src/src/lib.rs): the BitSet value type,  *)
(* a wrapper around one u128 field, with its per-bit accessors, bulk       *)
(* mutators, integer conversions and shift / complement operators.         *)
(*                                                                         *)
(* A u128 is modelled as a function from bit index (0 = least significant) *)
(* to BOOLEAN, a u64 as such a function over 0..63.  The Rust primitives   *)
(* on them (&, |, ^, !, <<, >>, `as`) are the operators of the first       *)
(* section; the methods of BitSet are translated on top of them.           *)
(*                                                                         *)
(* The state machine is a caller that owns one instance: it constructs it  *)
(* (new, from_u64, from_u128) and then makes one call on it, with every    *)
(* argument drawn from the bounded sets below.  other is the second        *)
(* operand of a binary operator, as the caller holds it after the call.    *)
(***************************************************************************)
EXTENDS Integers, Sequences, FiniteSets

VARIABLES bitset, prev, op, ret, pc, other

vars == <<bitset, prev, op, ret, pc, other>>

(***************************************************************************)
(* Bounds of the model.                                                    *)
(***************************************************************************)
\* positions and shift amounts range over 0..MaxPosition (past the capacity)
MaxPosition == 130
\* sample integers: runs of at most MaxRun consecutive one bits that start at
\* the first or the last bit of a byte, and their complements
MaxRun == 2
\* a sequence of flips has at most MaxFlips positions
MaxFlips == 3

(***************************************************************************)
(* Rust primitives on u64 / u128.                                          *)
(***************************************************************************)
U128Bits == 128
U64Bits == 64

Idx128 == 0 .. (U128Bits - 1)
Idx64 == 0 .. (U64Bits - 1)

Zero128 == [i \in Idx128 |-> FALSE]
One128 == [i \in Idx128 |-> i = 0]
\* 0xFFFF_FFFF_FFFF_FFFF_FFFF_FFFF_FFFF_FFFF_u128
AllOnes128 == [i \in Idx128 |-> TRUE]
\* 0xFFFF_FFFF_FFFF_FFFF_u128
LowOnes128 == [i \in Idx128 |-> i < U64Bits]

BitAnd128(a, b) == [i \in Idx128 |-> a[i] /\ b[i]]
BitOr128(a, b) == [i \in Idx128 |-> a[i] \/ b[i]]
BitXor128(a, b) == [i \in Idx128 |-> a[i] # b[i]]
Not128(a) == [i \in Idx128 |-> ~a[i]]

\* u128 << n and u128 >> n once the amount has been reduced modulo the bit
\* width (what the machine instruction, and wrapping_shl / wrapping_shr, do)
WrappingShl128(a, n) ==
    LET m == n % U128Bits
    IN  [i \in Idx128 |-> IF i >= m THEN a[i - m] ELSE FALSE]

WrappingShr128(a, n) ==
    LET m == n % U128Bits
    IN  [i \in Idx128 |-> IF i + m < U128Bits THEN a[i + m] ELSE FALSE]

\* the `<<` and `>>` operators overflow when the amount is not below the bit
\* width: a panic when the build has overflow checks (debug profile), the
\* wrapped shift when it has not (release profile)
ShiftOverflows(n) == n >= U128Bits

\* value as u128 (zero extension) and value as u64 (truncation)
AsU128(v) == [i \in Idx128 |-> IF i < U64Bits THEN v[i] ELSE FALSE]
AsU64(a) == [i \in Idx64 |-> a[i]]

count_ones(a) == Cardinality({i \in Idx128 : a[i]})

(***************************************************************************)
(* Option<T> and the unit value.                                           *)
(***************************************************************************)
Unit == <<>>
None == [some |-> FALSE]
Some(v) == [some |-> TRUE, val |-> v]

(***************************************************************************)
(* BitSet: struct BitSet { data: u128 } and its methods.  A method that    *)
(* takes &mut self yields the record [self, ret] of the instance after the *)
(* call and the value returned.                                            *)
(***************************************************************************)
BitSet(d) == [data |-> d]

new == BitSet(Zero128)

\* from_u64 that sign-extends: value as i64 as u128
from_u64_sign_extended(value) ==
    BitSet([i \in Idx128 |-> IF i < U64Bits THEN value[i] ELSE value[U64Bits - 1]])

from_u64(value) == BitSet(AsU128(value))

from_u128(value) == BitSet(value)

capacity(self) == 128

\* test without the bounds check
test_unchecked(self, position) ==
    BitAnd128(self.data, WrappingShl128(One128, position)) # Zero128

test(self, position) ==
    IF position < capacity(self)
    THEN BitAnd128(self.data, WrappingShl128(One128, position)) # Zero128
    ELSE FALSE

\* count of the low half only: (self.data as u64).count_ones()
count_low_half(self) == Cardinality({i \in Idx64 : self.data[i]})

count(self) == count_ones(self.data)

\* all against the 64-bit mask: self.data == 0xFFFF_FFFF_FFFF_FFFF
all_low_half(self) == self.data = LowOnes128

all(self) == self.data = AllOnes128

none(self) == self.data = Zero128

any(self) == self.data # Zero128

flip_all(self) == BitSet(BitXor128(self.data, AllOnes128))

\* flip with the bound off by one: position <= capacity
flip_bound_inclusive(self, position) ==
    IF position <= capacity(self)
    THEN [self |-> BitSet(BitXor128(self.data, WrappingShl128(One128, position))),
          ret |-> Some(Unit)]
    ELSE [self |-> self, ret |-> None]

\* flip with |= in place of ^=
flip_or(self, position) ==
    IF position < capacity(self)
    THEN [self |-> BitSet(BitOr128(self.data, WrappingShl128(One128, position))),
          ret |-> Some(Unit)]
    ELSE [self |-> self, ret |-> None]

\* flip that keeps only the flipped bit: self.data = (self.data ^ mask) & mask
flip_masked(self, position) ==
    IF position < capacity(self)
    THEN LET mask == WrappingShl128(One128, position)
         IN  [self |-> BitSet(BitAnd128(BitXor128(self.data, mask), mask)),
              ret |-> Some(Unit)]
    ELSE [self |-> self, ret |-> None]

flip(self, position) ==
    IF position < capacity(self)
    THEN [self |-> BitSet(BitXor128(self.data, WrappingShl128(One128, position))),
          ret |-> Some(Unit)]
    ELSE [self |-> self, ret |-> None]

set_all(self) == BitSet(AllOnes128)

reset_all(self) == BitSet(Zero128)

\* set that clears with the mask itself: self.data &= mask
set_clear_unmasked(self, position, value) ==
    IF position < capacity(self)
    THEN LET mask == WrappingShl128(One128, position)
         IN  [self |-> IF value
                       THEN BitSet(BitOr128(self.data, mask))
                       ELSE BitSet(BitAnd128(self.data, mask)),
              ret |-> Some(Unit)]
    ELSE [self |-> self, ret |-> None]

\* set that toggles on true: self.data ^= mask
set_toggle(self, position, value) ==
    IF position < capacity(self)
    THEN LET mask == WrappingShl128(One128, position)
         IN  [self |-> IF value
                       THEN BitSet(BitXor128(self.data, mask))
                       ELSE BitSet(BitAnd128(self.data, Not128(mask))),
              ret |-> Some(Unit)]
    ELSE [self |-> self, ret |-> None]

set(self, position, value) ==
    IF position < capacity(self)
    THEN LET mask == WrappingShl128(One128, position)
         IN  [self |-> IF value
                       THEN BitSet(BitOr128(self.data, mask))
                       ELSE BitSet(BitAnd128(self.data, Not128(mask))),
              ret |-> Some(Unit)]
    ELSE [self |-> self, ret |-> None]

get(self, position) ==
    IF position < capacity(self)
    THEN IF BitAnd128(self.data, WrappingShl128(One128, position)) # Zero128
         THEN Some(TRUE)
         ELSE Some(FALSE)
    ELSE None

\* to_u64 with the high mask shifted by 63
to_u64_mask_63(self) ==
    IF BitAnd128(self.data, WrappingShl128(LowOnes128, 63)) = Zero128
    THEN Some(AsU64(self.data))
    ELSE None

to_u64(self) ==
    IF BitAnd128(self.data, WrappingShl128(LowOnes128, 64)) = Zero128
    THEN Some(AsU64(self.data))
    ELSE None

to_u128(self) == Some(self.data)

\* as_string without .rev(): bit 0 first
as_string_forward(self) ==
    [k \in 1 .. capacity(self) |-> IF test(self, k - 1) THEN "1" ELSE "0"]

\* (lo..hi).rev(): the indices hi-1 down to lo, in the order iterated
RevRange(lo, hi) == [k \in 1 .. (hi - lo) |-> hi - k]

\* one character is pushed for each index of the iterator, in its order
as_string(self) ==
    LET it == RevRange(0, capacity(self))
    IN  [k \in 1 .. Len(it) |-> IF test(self, it[k]) THEN "1" ELSE "0"]

(***************************************************************************)
(* Bitwise operators: one definition for each impl, the non-mutating ones  *)
(* yielding the new instance, the assignment ones the receiver after the   *)
(* call.                                                                   *)
(***************************************************************************)
\* bitand_ref_ref with | for &
bitand_ref_ref_as_or(self, other_) ==
    [new EXCEPT !.data = BitOr128(self.data, other_.data)]

\* impl ops::BitAnd<BitSet> for BitSet
bitand(self, other_) ==
    [new EXCEPT !.data = BitAnd128(self.data, other_.data)]

\* impl ops::BitAnd<&BitSet> for BitSet
bitand_val_ref(self, other_) ==
    [new EXCEPT !.data = BitAnd128(self.data, other_.data)]

\* impl ops::BitAnd<BitSet> for &BitSet
bitand_ref_val(self, other_) ==
    [new EXCEPT !.data = BitAnd128(self.data, other_.data)]

\* impl ops::BitAnd<&BitSet> for &BitSet
bitand_ref_ref(self, other_) ==
    [new EXCEPT !.data = BitAnd128(self.data, other_.data)]

\* bitor that drops the receiver: bitset.data |= other.data on the new instance
bitor_drops_self(self, other_) ==
    [new EXCEPT !.data = BitOr128(new.data, other_.data)]

\* impl ops::BitOr<BitSet> for BitSet
bitor(self, other_) ==
    [new EXCEPT !.data = BitOr128(self.data, other_.data)]

\* impl ops::BitOr<&BitSet> for BitSet
bitor_val_ref(self, other_) ==
    [new EXCEPT !.data = BitOr128(self.data, other_.data)]

\* impl ops::BitOr<BitSet> for &BitSet
bitor_ref_val(self, other_) ==
    [new EXCEPT !.data = BitOr128(self.data, other_.data)]

\* impl ops::BitOr<&BitSet> for &BitSet
bitor_ref_ref(self, other_) ==
    [new EXCEPT !.data = BitOr128(self.data, other_.data)]

\* bitxor with | for ^
bitxor_as_or(self, other_) ==
    [new EXCEPT !.data = BitOr128(self.data, other_.data)]

\* impl ops::BitXor<BitSet> for BitSet
bitxor(self, other_) ==
    [new EXCEPT !.data = BitXor128(self.data, other_.data)]

\* impl ops::BitXor<&BitSet> for BitSet
bitxor_val_ref(self, other_) ==
    [new EXCEPT !.data = BitXor128(self.data, other_.data)]

\* impl ops::BitXor<BitSet> for &BitSet
bitxor_ref_val(self, other_) ==
    [new EXCEPT !.data = BitXor128(self.data, other_.data)]

\* impl ops::BitXor<&BitSet> for &BitSet
bitxor_ref_ref(self, other_) ==
    [new EXCEPT !.data = BitXor128(self.data, other_.data)]

\* impl ops::BitAndAssign<BitSet> for BitSet: the instance after the call
bitand_assign(self, other_) ==
    [self EXCEPT !.data = BitAnd128(self.data, other_.data)]

\* impl ops::BitAndAssign<&BitSet> for BitSet: the instance after the call
bitand_assign_ref(self, other_) ==
    [self EXCEPT !.data = BitAnd128(self.data, other_.data)]

\* impl ops::BitOrAssign<BitSet> for BitSet: the instance after the call
bitor_assign(self, other_) ==
    [self EXCEPT !.data = BitOr128(self.data, other_.data)]

\* impl ops::BitOrAssign<&BitSet> for BitSet: the instance after the call
bitor_assign_ref(self, other_) ==
    [self EXCEPT !.data = BitOr128(self.data, other_.data)]

\* impl ops::BitXorAssign<BitSet> for BitSet: the instance after the call
bitxor_assign(self, other_) ==
    [self EXCEPT !.data = BitXor128(self.data, other_.data)]

\* impl ops::BitXorAssign<&BitSet> for BitSet: the instance after the call
bitxor_assign_ref(self, other_) ==
    [self EXCEPT !.data = BitXor128(self.data, other_.data)]

(***************************************************************************)
(* Operators.  A shift yields [panic |-> TRUE] when it aborts, and         *)
(* [panic |-> FALSE, out |-> the result] otherwise; overflow_checks is the *)
(* build's setting.                                                        *)
(***************************************************************************)
Panicked == [panic |-> TRUE]
Returned(v) == [panic |-> FALSE, out |-> v]

\* shl that rotates: self.data.rotate_left(amount)
shl_rotate(self, amount, overflow_checks) ==
    Returned(BitSet([i \in Idx128 |-> self.data[(i + U128Bits - (amount % U128Bits)) % U128Bits]]))

\* impl ops::Shl<usize> for BitSet
shl(self, amount, overflow_checks) ==
    IF overflow_checks /\ ShiftOverflows(amount)
    THEN Panicked
    ELSE Returned(BitSet(WrappingShl128(self.data, amount)))

\* impl ops::Shl<usize> for &BitSet
shl_ref(self, amount, overflow_checks) ==
    IF overflow_checks /\ ShiftOverflows(amount)
    THEN Panicked
    ELSE Returned(BitSet(WrappingShl128(self.data, amount)))

\* impl ops::Shr<usize> for BitSet
shr(self, amount, overflow_checks) ==
    IF overflow_checks /\ ShiftOverflows(amount)
    THEN Panicked
    ELSE Returned(BitSet(WrappingShr128(self.data, amount)))

\* impl ops::Shr<usize> for &BitSet
shr_ref(self, amount, overflow_checks) ==
    IF overflow_checks /\ ShiftOverflows(amount)
    THEN Panicked
    ELSE Returned(BitSet(WrappingShr128(self.data, amount)))

\* impl ops::ShlAssign<usize> for BitSet: the instance after the call
shl_assign(self, amount, overflow_checks) ==
    IF overflow_checks /\ ShiftOverflows(amount)
    THEN Panicked
    ELSE Returned(BitSet(WrappingShl128(self.data, amount)))

\* impl ops::ShrAssign<usize> for BitSet: the instance after the call
shr_assign(self, amount, overflow_checks) ==
    IF overflow_checks /\ ShiftOverflows(amount)
    THEN Panicked
    ELSE Returned(BitSet(WrappingShr128(self.data, amount)))

\* impl ops::Not for BitSet
not(self) == BitSet(Not128(self.data))

\* impl ops::Not for &BitSet
not_ref(self) == BitSet(Not128(self.data))

(***************************************************************************)
(* Inputs.                                                                 *)
(***************************************************************************)
Positions == 0 .. MaxPosition

Run(width, start, len) == [i \in 0 .. (width - 1) |-> i >= start /\ i < start + len]
Complement(v) == [i \in DOMAIN v |-> ~v[i]]

ByteEdges(width) == {s \in 0 .. (width - 1) : s % 8 \in {0, 7}}

Runs(width) == {Run(width, s, l) : s \in ByteEdges(width), l \in 0 .. MaxRun}

SampleU64 == Runs(U64Bits) \cup {Complement(v) : v \in Runs(U64Bits)}
SampleU128 == Runs(U128Bits) \cup {Complement(v) : v \in Runs(U128Bits)}

\* sample operands: the runs that start at an edge of a 64-bit half, and
\* their complements
OperandRuns ==
    {Run(U128Bits, s, l) : s \in {s \in Idx128 : s % 64 \in {0, 63}}, l \in 0 .. MaxRun}
OperandSample == OperandRuns \cup {Complement(v) : v \in OperandRuns}

(***************************************************************************)
(* The caller.  pc: "new" after BitSet::new(), "constructed" once the      *)
(* instance under test is bound, "returned" after a call that returned,    *)
(* "panicked" after a call that aborted.                                   *)
(***************************************************************************)
Init ==
    /\ bitset = new
    /\ prev = new
    /\ other = new
    /\ op = [name |-> "new"]
    /\ ret = Unit
    /\ pc = "new"

\* let bitset = BitSet::new();
New ==
    /\ pc = "new"
    /\ other' = other
    /\ bitset' = new
    /\ prev' = bitset
    /\ op' = [name |-> "new"]
    /\ ret' = Unit
    /\ pc' = "constructed"

\* let bitset = BitSet::from_u64(value);
FromU64 ==
    /\ pc = "new"
    /\ other' = other
    /\ \E value \in SampleU64 :
        /\ bitset' = from_u64(value)
        /\ op' = [name |-> "from_u64", value |-> value]
    /\ prev' = bitset
    /\ ret' = Unit
    /\ pc' = "constructed"

\* let bitset = BitSet::from_u128(value);
FromU128 ==
    /\ pc = "new"
    /\ other' = other
    /\ \E value \in SampleU128 :
        /\ bitset' = from_u128(value)
        /\ op' = [name |-> "from_u128", value |-> value]
    /\ prev' = bitset
    /\ ret' = Unit
    /\ pc' = "constructed"

\* a call of a method taking &self: the instance is left alone
Query(o, r) ==
    /\ other' = other
    /\ bitset' = bitset
    /\ prev' = bitset
    /\ op' = o
    /\ ret' = r
    /\ pc' = "returned"

\* a call of a method taking &mut self
Mutate(o, s, r) ==
    /\ other' = other
    /\ bitset' = s
    /\ prev' = bitset
    /\ op' = o
    /\ ret' = r
    /\ pc' = "returned"

\* a call that panics: nothing is returned and nothing is assigned
Abort(o) ==
    /\ other' = other
    /\ bitset' = bitset
    /\ prev' = bitset
    /\ op' = o
    /\ ret' = Unit
    /\ pc' = "panicked"

Test ==
    /\ pc = "constructed"
    /\ \E position \in Positions :
        Query([name |-> "test", position |-> position], test(bitset, position))

Get ==
    /\ pc = "constructed"
    /\ \E position \in Positions :
        Query([name |-> "get", position |-> position], get(bitset, position))

Count ==
    /\ pc = "constructed"
    /\ Query([name |-> "count"], count(bitset))

Capacity ==
    /\ pc = "constructed"
    /\ Query([name |-> "capacity"], capacity(bitset))

All ==
    /\ pc = "constructed"
    /\ Query([name |-> "all"], all(bitset))

NoneSet ==
    /\ pc = "constructed"
    /\ Query([name |-> "none"], none(bitset))

Any ==
    /\ pc = "constructed"
    /\ Query([name |-> "any"], any(bitset))

ToU64 ==
    /\ pc = "constructed"
    /\ Query([name |-> "to_u64"], to_u64(bitset))

ToU128 ==
    /\ pc = "constructed"
    /\ Query([name |-> "to_u128"], to_u128(bitset))

AsString ==
    /\ pc = "constructed"
    /\ Query([name |-> "as_string"], as_string(bitset))

FlipAll ==
    /\ pc = "constructed"
    /\ Mutate([name |-> "flip_all"], flip_all(bitset), Unit)

Flip ==
    /\ pc = "constructed"
    /\ \E position \in Positions :
        LET r == flip(bitset, position)
        IN  Mutate([name |-> "flip", position |-> position], r.self, r.ret)

SetAll ==
    /\ pc = "constructed"
    /\ Mutate([name |-> "set_all"], set_all(bitset), Unit)

ResetAll ==
    /\ pc = "constructed"
    /\ Mutate([name |-> "reset_all"], reset_all(bitset), Unit)

Set ==
    /\ pc = "constructed"
    /\ \E position \in Positions, value \in BOOLEAN :
        LET r == set(bitset, position, value)
        IN  Mutate([name |-> "set", position |-> position, value |-> value],
                   r.self, r.ret)

\* a non-mutating operator: the operand is copied (or borrowed), the result
\* is a new instance
Operator(o, r) ==
    IF r.panic THEN Abort(o) ELSE Query(o, r.out)

\* an assignment operator: the receiver becomes the result
AssignOperator(o, r) ==
    IF r.panic THEN Abort(o) ELSE Mutate(o, r.out, Unit)

\* bitset << amount
Shl ==
    /\ pc = "constructed"
    /\ \E amount \in Positions, overflow_checks \in BOOLEAN :
        Operator([name |-> "shl", amount |-> amount],
                 shl(bitset, amount, overflow_checks))

\* &bitset << amount
ShlRef ==
    /\ pc = "constructed"
    /\ \E amount \in Positions, overflow_checks \in BOOLEAN :
        Operator([name |-> "shl_ref", amount |-> amount],
                 shl_ref(bitset, amount, overflow_checks))

\* bitset >> amount
Shr ==
    /\ pc = "constructed"
    /\ \E amount \in Positions, overflow_checks \in BOOLEAN :
        Operator([name |-> "shr", amount |-> amount],
                 shr(bitset, amount, overflow_checks))

\* &bitset >> amount
ShrRef ==
    /\ pc = "constructed"
    /\ \E amount \in Positions, overflow_checks \in BOOLEAN :
        Operator([name |-> "shr_ref", amount |-> amount],
                 shr_ref(bitset, amount, overflow_checks))

\* bitset <<= amount
ShlAssign ==
    /\ pc = "constructed"
    /\ \E amount \in Positions, overflow_checks \in BOOLEAN :
        AssignOperator([name |-> "shl_assign", amount |-> amount],
                       shl_assign(bitset, amount, overflow_checks))

\* bitset >>= amount
ShrAssign ==
    /\ pc = "constructed"
    /\ \E amount \in Positions, overflow_checks \in BOOLEAN :
        AssignOperator([name |-> "shr_assign", amount |-> amount],
                       shr_assign(bitset, amount, overflow_checks))

\* !bitset
Not ==
    /\ pc = "constructed"
    /\ Query([name |-> "not"], not(bitset))

\* !&bitset
NotRef ==
    /\ pc = "constructed"
    /\ Query([name |-> "not_ref"], not_ref(bitset))

\* the operands of a binary operator: the sample operands and the receiver
\* itself (x op x)
OperandsOf(self) == {from_u128(value) : value \in OperandSample} \cup {self}

\* a non-mutating binary operator: operands copied or borrowed, the result
\* is a new instance
BinaryOperator(o, r) ==
    /\ bitset' = bitset
    /\ prev' = bitset
    /\ other' = o.other
    /\ op' = o
    /\ ret' = r
    /\ pc' = "returned"

\* a binary assignment operator: the receiver becomes the result
BinaryAssignOperator(o, s) ==
    /\ bitset' = s
    /\ prev' = bitset
    /\ other' = o.other
    /\ op' = o
    /\ ret' = Unit
    /\ pc' = "returned"

\* bitset & y
BitAnd ==
    /\ pc = "constructed"
    /\ \E y \in OperandsOf(bitset) :
        BinaryOperator([name |-> "bitand", other |-> y], bitand(bitset, y))

\* bitset & &y
BitAndValRef ==
    /\ pc = "constructed"
    /\ \E y \in OperandsOf(bitset) :
        BinaryOperator([name |-> "bitand_val_ref", other |-> y], bitand_val_ref(bitset, y))

\* &bitset & y
BitAndRefVal ==
    /\ pc = "constructed"
    /\ \E y \in OperandsOf(bitset) :
        BinaryOperator([name |-> "bitand_ref_val", other |-> y], bitand_ref_val(bitset, y))

\* &bitset & &y
BitAndRefRef ==
    /\ pc = "constructed"
    /\ \E y \in OperandsOf(bitset) :
        BinaryOperator([name |-> "bitand_ref_ref", other |-> y], bitand_ref_ref(bitset, y))

\* bitset &= y
BitAndAssign ==
    /\ pc = "constructed"
    /\ \E y \in OperandsOf(bitset) :
        BinaryAssignOperator([name |-> "bitand_assign", other |-> y], bitand_assign(bitset, y))

\* bitset &= &y
BitAndAssignRef ==
    /\ pc = "constructed"
    /\ \E y \in OperandsOf(bitset) :
        BinaryAssignOperator([name |-> "bitand_assign_ref", other |-> y], bitand_assign_ref(bitset, y))

\* bitset | y
BitOr ==
    /\ pc = "constructed"
    /\ \E y \in OperandsOf(bitset) :
        BinaryOperator([name |-> "bitor", other |-> y], bitor(bitset, y))

\* bitset | &y
BitOrValRef ==
    /\ pc = "constructed"
    /\ \E y \in OperandsOf(bitset) :
        BinaryOperator([name |-> "bitor_val_ref", other |-> y], bitor_val_ref(bitset, y))

\* &bitset | y
BitOrRefVal ==
    /\ pc = "constructed"
    /\ \E y \in OperandsOf(bitset) :
        BinaryOperator([name |-> "bitor_ref_val", other |-> y], bitor_ref_val(bitset, y))

\* &bitset | &y
BitOrRefRef ==
    /\ pc = "constructed"
    /\ \E y \in OperandsOf(bitset) :
        BinaryOperator([name |-> "bitor_ref_ref", other |-> y], bitor_ref_ref(bitset, y))

\* bitset |= y
BitOrAssign ==
    /\ pc = "constructed"
    /\ \E y \in OperandsOf(bitset) :
        BinaryAssignOperator([name |-> "bitor_assign", other |-> y], bitor_assign(bitset, y))

\* bitset |= &y
BitOrAssignRef ==
    /\ pc = "constructed"
    /\ \E y \in OperandsOf(bitset) :
        BinaryAssignOperator([name |-> "bitor_assign_ref", other |-> y], bitor_assign_ref(bitset, y))

\* bitset ^ y
BitXor ==
    /\ pc = "constructed"
    /\ \E y \in OperandsOf(bitset) :
        BinaryOperator([name |-> "bitxor", other |-> y], bitxor(bitset, y))

\* bitset ^ &y
BitXorValRef ==
    /\ pc = "constructed"
    /\ \E y \in OperandsOf(bitset) :
        BinaryOperator([name |-> "bitxor_val_ref", other |-> y], bitxor_val_ref(bitset, y))

\* &bitset ^ y
BitXorRefVal ==
    /\ pc = "constructed"
    /\ \E y \in OperandsOf(bitset) :
        BinaryOperator([name |-> "bitxor_ref_val", other |-> y], bitxor_ref_val(bitset, y))

\* &bitset ^ &y
BitXorRefRef ==
    /\ pc = "constructed"
    /\ \E y \in OperandsOf(bitset) :
        BinaryOperator([name |-> "bitxor_ref_ref", other |-> y], bitxor_ref_ref(bitset, y))

\* bitset ^= y
BitXorAssign ==
    /\ pc = "constructed"
    /\ \E y \in OperandsOf(bitset) :
        BinaryAssignOperator([name |-> "bitxor_assign", other |-> y], bitxor_assign(bitset, y))

\* bitset ^= &y
BitXorAssignRef ==
    /\ pc = "constructed"
    /\ \E y \in OperandsOf(bitset) :
        BinaryAssignOperator([name |-> "bitxor_assign_ref", other |-> y], bitxor_assign_ref(bitset, y))

Next ==
    \/ New \/ FromU64 \/ FromU128
    \/ Test \/ Get \/ Count \/ Capacity \/ All \/ NoneSet \/ Any
    \/ ToU64 \/ ToU128 \/ AsString
    \/ FlipAll \/ Flip \/ SetAll \/ ResetAll \/ Set
    \/ Shl \/ ShlRef \/ Shr \/ ShrRef \/ ShlAssign \/ ShrAssign
    \/ Not \/ NotRef
    \/ BitAnd \/ BitAndValRef \/ BitAndRefVal \/ BitAndRefRef \/ BitAndAssign \/ BitAndAssignRef
    \/ BitOr \/ BitOrValRef \/ BitOrRefVal \/ BitOrRefRef \/ BitOrAssign \/ BitOrAssignRef
    \/ BitXor \/ BitXorValRef \/ BitXorRefVal \/ BitXorRefRef \/ BitXorAssign \/ BitXorAssignRef

Spec == Init /\ [][Next]_vars

(***************************************************************************)
(* A second caller, for sequences of flips: it constructs an instance from *)
(* a sample integer and flips up to MaxFlips positions of it, one call     *)
(* after the other.  prev keeps the instance as constructed, op.positions  *)
(* the positions flipped so far.                                           *)
(***************************************************************************)
\* the positions at the edges of the two 64-bit halves
FlipPositions == {p \in 0 .. (capacity(new) - 1) : p % 64 \in {0, 63}}

InitFlips ==
    /\ \E value \in SampleU128 : bitset = from_u128(value)
    /\ prev = bitset
    /\ other = new
    /\ op = [name |-> "flips", positions |-> <<>>]
    /\ ret = Unit
    /\ pc = "flipping"

\* bitset.flip(position);
FlipInSequence ==
    /\ pc = "flipping"
    /\ Len(op.positions) < MaxFlips
    /\ \E position \in FlipPositions :
        LET r == flip(bitset, position)
        IN  /\ bitset' = r.self
            /\ ret' = r.ret
            /\ op' = [op EXCEPT !.positions = Append(@, position)]
    /\ UNCHANGED <<prev, pc, other>>

NextFlips == FlipInSequence

SpecFlips == InitFlips /\ [][NextFlips]_vars

(***************************************************************************)
(* Properties.                                                             *)
(***************************************************************************)
\* the instance a non-mutating operator returned, or the receiver of an
\* assignment operator after the call
ShiftLeftOps == {"shl", "shl_ref", "shl_assign"}
ShiftRightOps == {"shr", "shr_ref", "shr_assign"}
ShiftOps == ShiftLeftOps \cup ShiftRightOps
ShiftResult == IF op.name \in {"shl_assign", "shr_assign"} THEN bitset ELSE ret

\* C1: for every position p >= 128, get(p), set(p, v) and flip(p) return
\* None and leave the 128 bits of the instance as they were.
C1_OutOfRangeIsAbsentAndInert ==
    (pc = "returned" /\ op.name \in {"get", "set", "flip"} /\ op.position >= 128)
        => (ret = None /\ bitset = prev)

C1_Witness ==
    /\ pc = "returned"
    /\ op.name = "flip"
    /\ op.position = 128
    /\ prev.data[0] /\ ~prev.data[1]
    /\ ret = None
    /\ bitset = prev

\* C2: for every amount n >= 128, x << n, x >> n, x <<= n and x >>= n yield
\* the all-false instance whatever x holds.
C2_ShiftPastCapacityClears ==
    (pc \in {"returned", "panicked"} /\ op.name \in ShiftOps /\ op.amount >= 128)
        => (pc = "returned" /\ ShiftResult = new)

\* C3: no operation aborts: in particular a shift by any amount, 128 and
\* above included, completes with a result.
C3_NoOperationAborts == pc # "panicked"

\* C4: test(p) is false for every p >= 128, is the value of bit p for every
\* p < 128, and leaves the instance as it was.
C4_TestReadsBitOrFalse ==
    (pc = "returned" /\ op.name = "test")
        => /\ ret = (IF op.position >= 128 THEN FALSE ELSE prev.data[op.position])
           /\ bitset = prev

C4_Witness ==
    /\ pc = "returned"
    /\ op.name = "test"
    /\ op.position = 128
    /\ prev.data = AllOnes128
    /\ ret = FALSE

\* C5: for every p < 128 and v, set(p, v) returns Some(()), get(p) is then
\* Some(v), and every other position keeps its value.
C5_SetWritesOneBit ==
    (pc = "returned" /\ op.name = "set" /\ op.position < 128)
        => /\ ret = Some(Unit)
           /\ get(bitset, op.position) = Some(op.value)
           /\ \A q \in Idx128 \ {op.position} : bitset.data[q] = prev.data[q]

C5_Witness ==
    /\ pc = "returned"
    /\ op.name = "set"
    /\ op.position = 64
    /\ op.value = FALSE
    /\ prev.data[64] /\ prev.data[65] /\ prev.data[63]
    /\ ~bitset.data[64]

\* C6: to_u64() is present exactly when bits 64..127 are all false, and then
\* it is the low 64 bits of the instance.
C6_ToU64FitsOrAbsent ==
    (pc = "returned" /\ op.name = "to_u64")
        => /\ ret.some <=> (\A i \in 64 .. 127 : ~prev.data[i])
           /\ ret.some => /\ DOMAIN ret.val = 0 .. 63
                          /\ \A i \in 0 .. 63 : ret.val[i] = prev.data[i]

C6_Witness ==
    /\ pc = "returned"
    /\ op.name = "to_u64"
    /\ prev.data[63] /\ ~prev.data[62]
    /\ ret.some
    /\ ret.val[63]

\* C7: to_u128(from_u128(v)) is Some(v) for every 128-bit v and to_u128 is
\* never None; to_u64(from_u64(v)) is Some(v) for every 64-bit v, and bits
\* 64..127 of from_u64(v) are false.
C7_IntegerRoundTrip ==
    /\ (pc = "constructed" /\ op.name = "from_u128")
        => to_u128(bitset) = Some(op.value)
    /\ (pc = "constructed" /\ op.name = "from_u64")
        => /\ to_u64(bitset) = Some(op.value)
           /\ \A i \in 64 .. 127 : ~bitset.data[i]
    /\ (pc = "returned" /\ op.name = "to_u128")
        => (ret.some /\ ret.val = prev.data)

C7_Witness ==
    /\ pc = "constructed"
    /\ op.name = "from_u64"
    /\ \A i \in 0 .. 63 : op.value[i]
    /\ to_u64(bitset) = Some(op.value)

\* C8: for 0 <= n < 128, bit i of x << n is bit i-n of x when i >= n and
\* false below; bit i of x >> n is bit i+n of x when i+n < 128 and false
\* above; a shift by 0 is the identity, and (x << 127) << 1 and
\* (x >> 127) >> 1 are all-false.
C8_ShiftIsLogical ==
    (pc = "returned" /\ op.name \in ShiftOps /\ op.amount < 128)
        => LET n == op.amount
               r == ShiftResult
           IN  /\ op.name \in ShiftLeftOps =>
                    /\ \A i \in 0 .. 127 :
                        r.data[i] = (IF i >= n THEN prev.data[i - n] ELSE FALSE)
                    /\ n = 127 => \A oc \in BOOLEAN : shl(r, 1, oc) = Returned(new)
               /\ op.name \in ShiftRightOps =>
                    /\ \A i \in 0 .. 127 :
                        r.data[i] = (IF i + n < 128 THEN prev.data[i + n] ELSE FALSE)
                    /\ n = 127 => \A oc \in BOOLEAN : shr(r, 1, oc) = Returned(new)
               /\ n = 0 => r = prev

C8_Witness ==
    /\ pc = "returned"
    /\ op.name = "shl"
    /\ op.amount = 127
    /\ prev.data = AllOnes128
    /\ ret.data[127]
    /\ \A i \in 0 .. 126 : ~ret.data[i]

\* C9: flip(p) for p < 128, flip_all and NOT are involutions: applied twice
\* they give back an instance equal in all 128 bits.
C9_FlipsAreInvolutions ==
    /\ (pc = "returned" /\ op.name = "flip" /\ op.position < 128)
        => flip(bitset, op.position).self = prev
    /\ (pc = "returned" /\ op.name = "flip_all")
        => flip_all(bitset) = prev
    /\ (pc = "returned" /\ op.name = "not")
        => not(ret) = prev
    /\ (pc = "returned" /\ op.name = "not_ref")
        => not_ref(ret) = prev

C9_Witness ==
    /\ pc = "returned"
    /\ op.name = "flip"
    /\ op.position = 127
    /\ ~prev.data[127] /\ prev.data[0]
    /\ bitset.data[127]
    /\ flip(bitset, 127).self = prev

\* the instance after flipping the positions of seq in order
RECURSIVE FlipEach(_, _)
FlipEach(self, seq) ==
    IF seq = <<>> THEN self
    ELSE FlipEach(flip(self, Head(seq)).self, Tail(seq))

Bijections(S) == {f \in [S -> S] : \A a, b \in S : f[a] = f[b] => a = b}

Reorderings(seq) ==
    {[i \in 1 .. Len(seq) |-> seq[f[i]]] : f \in Bijections(1 .. Len(seq))}

\* C10: flipping the positions of a sequence in any order gives the same
\* instance.
C10_FlipOrderIrrelevant ==
    (pc = "flipping")
        => \A seq \in Reorderings(op.positions) : FlipEach(prev, seq) = bitset

C10_Witness ==
    /\ pc = "flipping"
    /\ op.positions = <<0, 127, 64>>
    /\ prev.data[0] /\ ~prev.data[127]
    /\ FlipEach(prev, <<64, 0, 127>>) = bitset
    /\ bitset # prev


\* C11: set is idempotent: for every p < 128 and v, a second set(p, v)
\* leaves the instance in the state the first call reached.
C11_SetIsIdempotent ==
    (pc = "returned" /\ op.name = "set" /\ op.position < 128)
        => set(bitset, op.position, op.value) = [self |-> bitset, ret |-> Some(Unit)]

C11_Witness ==
    /\ pc = "returned"
    /\ op.name = "set"
    /\ op.position = 1
    /\ op.value = TRUE
    /\ ~prev.data[1] /\ prev.data[0]
    /\ bitset.data[1]
    /\ set(bitset, 1, TRUE).self = bitset

\* the states whose count is compared with the bits test reports: every
\* constructed instance, and the instance after count, a bulk mutator, or a
\* flip, set or shift assignment at the edge of a 64-bit half
CountCompared ==
    \/ pc = "constructed"
    \/ /\ pc = "returned"
       /\ \/ op.name \in {"count", "set_all", "reset_all", "flip_all"}
          \/ op.name \in {"flip", "set"} /\ op.position % 64 \in {0, 63}
          \/ op.name \in {"shl_assign", "shr_assign"} /\ op.amount % 64 \in {1, 63}

\* C12: count() is the number of positions p in 0..127 for which test(p) is
\* true, so it lies in 0..128; it is 0 for the all-false instance and 128
\* (= capacity()) after set_all.
C12_CountIsNumberOfSetBits ==
    /\ CountCompared =>
        /\ count(bitset) = Cardinality({p \in 0 .. 127 : test(bitset, p)})
        /\ count(bitset) \in 0 .. 128
    /\ (pc = "returned" /\ op.name = "count") => ret = count(bitset)
    /\ (\A i \in 0 .. 127 : ~bitset.data[i]) => count(bitset) = 0
    /\ (pc = "returned" /\ op.name = "set_all")
        => (count(bitset) = 128 /\ count(bitset) = capacity(bitset))

C12_Witness ==
    /\ pc = "returned"
    /\ op.name = "count"
    /\ ret = 126
    /\ ~prev.data[63] /\ ~prev.data[64]
    /\ Cardinality({p \in 0 .. 127 : test(bitset, p)}) = 126

\* C13: in every state any() is the negation of none(), all() and none()
\* are never both true, all() holds exactly when all 128 bits are set (as
\* after set_all) and none() exactly when all are false (as after new or
\* reset_all).
C13_AllAnyNoneAgree ==
    /\ any(bitset) = ~none(bitset)
    /\ ~(all(bitset) /\ none(bitset))
    /\ all(bitset) <=> (\A i \in 0 .. 127 : bitset.data[i])
    /\ none(bitset) <=> (\A i \in 0 .. 127 : ~bitset.data[i])
    /\ (pc = "returned" /\ op.name = "set_all") => all(bitset)
    /\ (pc = "returned" /\ op.name = "reset_all") => none(bitset)
    /\ (pc = "constructed" /\ op.name = "new") => none(bitset)
    /\ (pc = "returned" /\ op.name = "all") => ret = all(bitset)
    /\ (pc = "returned" /\ op.name = "none") => ret = none(bitset)
    /\ (pc = "returned" /\ op.name = "any") => ret = any(bitset)

C13_Witness ==
    /\ pc = "returned"
    /\ op.name = "set_all"
    /\ prev.data[0] /\ ~prev.data[127]
    /\ all(bitset) /\ any(bitset) /\ ~none(bitset)

\* C14: as_string() is a sequence of exactly 128 characters, each '0' or
\* '1', whose character at textual index k (0 = leftmost) is '1' exactly
\* when bit 127-k is set.
C14_AsStringIsBigEndianBits ==
    (pc = "returned" /\ op.name = "as_string")
        => /\ Len(ret) = 128
           /\ \A k \in 0 .. 127 :
                /\ ret[k + 1] \in {"0", "1"}
                /\ ret[k + 1] = "1" <=> prev.data[127 - k]
           /\ bitset = prev

C14_Witness ==
    /\ pc = "returned"
    /\ op.name = "as_string"
    /\ prev.data[0] /\ prev.data[1] /\ \A i \in 2 .. 127 : ~prev.data[i]
    /\ ret[128] = "1" /\ ret[127] = "1" /\ ret[126] = "0" /\ ret[1] = "0"

AndForms ==
    {"bitand", "bitand_val_ref", "bitand_ref_val", "bitand_ref_ref",
     "bitand_assign", "bitand_assign_ref"}
OrForms ==
    {"bitor", "bitor_val_ref", "bitor_ref_val", "bitor_ref_ref",
     "bitor_assign", "bitor_assign_ref"}
XorForms ==
    {"bitxor", "bitxor_val_ref", "bitxor_ref_val", "bitxor_ref_ref",
     "bitxor_assign", "bitxor_assign_ref"}
BinaryForms == AndForms \cup OrForms \cup XorForms
AssignForms ==
    {"bitand_assign", "bitand_assign_ref", "bitor_assign", "bitor_assign_ref",
     "bitxor_assign", "bitxor_assign_ref", "shl_assign", "shr_assign"}
\* the instance a binary operator produced: returned, or left in the receiver
BinaryResult == IF op.name \in AssignForms THEN bitset ELSE ret

\* C15: every form of an operator (owned or borrowed operands, assignment)
\* gives the same 128-bit result from the same operands and amount; the
\* non-mutating forms leave their operands as they were and the assignment
\* forms change only the receiver.
C15_OperatorFormsAgree ==
    /\ (pc = "returned" /\ op.name \in BinaryForms) =>
        LET x == prev
            y == op.other
            r == BinaryResult
        IN  /\ op.name \in AndForms =>
                /\ r = bitand(x, y) /\ r = bitand_val_ref(x, y)
                /\ r = bitand_ref_val(x, y) /\ r = bitand_ref_ref(x, y)
                /\ r = bitand_assign(x, y) /\ r = bitand_assign_ref(x, y)
            /\ op.name \in OrForms =>
                /\ r = bitor(x, y) /\ r = bitor_val_ref(x, y)
                /\ r = bitor_ref_val(x, y) /\ r = bitor_ref_ref(x, y)
                /\ r = bitor_assign(x, y) /\ r = bitor_assign_ref(x, y)
            /\ op.name \in XorForms =>
                /\ r = bitxor(x, y) /\ r = bitxor_val_ref(x, y)
                /\ r = bitxor_ref_val(x, y) /\ r = bitxor_ref_ref(x, y)
                /\ r = bitxor_assign(x, y) /\ r = bitxor_assign_ref(x, y)
            /\ other = y
            /\ op.name \notin AssignForms => bitset = x
    /\ (pc \in {"returned", "panicked"} /\ op.name \in ShiftOps) =>
        LET x == prev
            n == op.amount
        IN  /\ op.name \in ShiftLeftOps =>
                /\ \A oc \in BOOLEAN :
                    LET r == shl(x, n, oc)
                    IN  /\ shl_ref(x, n, oc) = r
                        /\ shl_assign(x, n, oc) = r
                        /\ (pc = "returned" /\ ~oc) => Returned(ShiftResult) = r
            /\ op.name \in ShiftRightOps =>
                /\ \A oc \in BOOLEAN :
                    LET r == shr(x, n, oc)
                    IN  /\ shr_ref(x, n, oc) = r
                        /\ shr_assign(x, n, oc) = r
                        /\ (pc = "returned" /\ ~oc) => Returned(ShiftResult) = r
            /\ op.name \notin AssignForms => bitset = x
    /\ (pc = "returned" /\ op.name \in {"not", "not_ref"}) =>
        /\ ret = not(prev) /\ ret = not_ref(prev)
        /\ bitset = prev

C15_Witness ==
    /\ pc = "returned"
    /\ op.name = "bitand_assign_ref"
    /\ ~prev.data[64] /\ prev.data[63] /\ prev.data[65]
    /\ op.other.data[63] /\ op.other.data[64] /\ ~op.other.data[65]
    /\ bitset = bitand_ref_ref(prev, op.other)
    /\ bitset # prev /\ bitset # op.other
    /\ other = op.other

\* C16: x AND x == x, x OR x == x, and x XOR x is the all-false instance.
C16_SelfOperand ==
    (pc = "returned" /\ op.name \in BinaryForms /\ op.other = prev) =>
        /\ op.name \in AndForms => BinaryResult = prev
        /\ op.name \in OrForms => BinaryResult = prev
        /\ op.name \in XorForms => BinaryResult = new

C16_Witness ==
    /\ pc = "returned"
    /\ op.name = "bitxor"
    /\ op.other = prev
    /\ prev.data[0] /\ ~prev.data[7] /\ prev.data[127]
    /\ ret = new

\* the table of a bitwise operator on one pair of bits
BitOf(name, a, b) ==
    IF name \in AndForms THEN a /\ b
    ELSE IF name \in OrForms THEN a \/ b
    ELSE a # b

\* the canonical (owned operands) form of the operator called
Canonical(name, x, y) ==
    IF name \in AndForms THEN bitand(x, y)
    ELSE IF name \in OrForms THEN bitor(x, y)
    ELSE bitxor(x, y)

\* C17: AND, OR and XOR are commutative and associative, each result bit
\* depends only on the operand bits at its position, and the all-false
\* instance is the identity of XOR.  (Associativity is evaluated on the
\* results of the owned-operand forms, with every operand as the third.)
C17_BitwiseAlgebra ==
    (pc = "returned" /\ op.name \in BinaryForms) =>
        LET x == prev
            y == op.other
            r == BinaryResult
        IN  /\ r = Canonical(op.name, y, x)
            /\ op.name \in {"bitand", "bitor", "bitxor"} =>
                \A z \in OperandsOf(x) :
                    Canonical(op.name, r, z)
                        = Canonical(op.name, x, Canonical(op.name, y, z))
            /\ \A i \in 0 .. 127 : r.data[i] = BitOf(op.name, x.data[i], y.data[i])
            /\ (op.name \in XorForms /\ y = new) => r = x

C17_Witness ==
    /\ pc = "returned"
    /\ op.name = "bitor"
    /\ prev.data[0] /\ ~prev.data[1] /\ ~prev.data[63]
    /\ ~op.other.data[0] /\ op.other.data[63] /\ op.other.data[64]
    /\ ret = bitor(op.other, prev)
    /\ ret.data[0] /\ ret.data[63] /\ ~ret.data[1]

====
